---------------------------- MODULE Spec2Model ----------------------------
(***************************************************************************)
(* XPT2046 touch controller driver: sampling, moving-average filter,      *)
(* three-point calibration state machine, affine solver and coordinate    *)
(* mapper (src/src/xpt2046.c, src/src/xpt2046_low_if.c).                   *)
(***************************************************************************)
EXTENDS Integers, Sequences, FiniteSets, TLC

(***************************************************************************)
(* Integer types of the C code.                                            *)
(*                                                                         *)
(* int32_t and uint16_t values are plain integers.  An int64_t value v is  *)
(* the pair <<h, l>> with v = h * 2^20 + l and 0 <= l < 2^20, so that the  *)
(* 64-bit intermediates of the solver and of the mapper (all below 2^51    *)
(* in magnitude, hence never wrapping at 64 bits) are computed without     *)
(* leaving the 32-bit range in which the model's integers are evaluated.   *)
(***************************************************************************)
WB == 2^20

\* The operators below bind their operands through a set constructor
\* ({e : v \in {operand}}), so that an operand is computed once however
\* often the body uses it, as C evaluates it once.
U16(n) == n % 65536

I64(n) == CHOOSE r \in {<<v \div WB, v % WB>> : v \in {n}} : TRUE

I64Add(a, b) ==
    CHOOSE r \in
      {LET s == p[1][2] + p[2][2]
       IN  <<p[1][1] + p[2][1] + (s \div WB), s % WB>> : p \in {<<a, b>>}} : TRUE

I64Neg(a) ==
    CHOOSE r \in
      {IF v[2] = 0 THEN <<-v[1], 0>> ELSE <<-v[1] - 1, WB - v[2]>> : v \in {a}} : TRUE

I64Sub(a, b) == I64Add(a, I64Neg(b))

I64IsNeg(a) == a[1] < 0

I64Abs(a) == CHOOSE r \in {IF I64IsNeg(v) THEN I64Neg(v) ELSE v : v \in {a}} : TRUE

\* a < b on int64 values
I64Less(a, b) ==
    \E p \in {<<a, b>>} : p[1][1] < p[2][1] \/ (p[1][1] = p[2][1] /\ p[1][2] < p[2][2])

\* k * x for an int32 k and 0 <= x <= 65535, as int64
I64MulU16(k, x) ==
    CHOOSE r \in
      {LET kh == p[1] \div WB
           kl == p[1] % WB
           xh == p[2] \div 256
           xl == p[2] % 256
           a  == kl * xl
           b  == kl * xh
           bh == b \div 4096
           bl == b % 4096
           lo == (a % WB) + bl * 256
       IN  <<kh * p[2] + bh + (a \div WB) + (lo \div WB), lo % WB>> : p \in {<<k, x>>}} : TRUE

\* k * m for an int32 k and -65535 <= m <= 65535, as int64
I64Mul(k, m) ==
    CHOOSE r \in
      {IF p[2] < 0 THEN I64Neg(I64MulU16(p[1], -p[2])) ELSE I64MulU16(p[1], p[2]) :
         p \in {<<k, m>>}} : TRUE

\* (int32_t) v : conversion of an int64 to 32 bits keeps the low 32 bits
ToInt32(w) ==
    CHOOSE r \in
      {LET hm == v[1] % 4096
       IN  IF hm >= 2048 THEN (hm - 4096) * WB + v[2] ELSE hm * WB + v[2] : v \in {w}} : TRUE

\* a + b on int32 operands, kept to 32 bits (two's complement result; the
\* sums and differences of the captured points used here stay within 32 bits
\* wherever a property rests on them)
Add32(a, b) == ToInt32(I64Add(I64(a), I64(b)))

Sub32(a, b) == ToInt32(I64Sub(I64(a), I64(b)))

\* the low limb of a long division: r is the running remainder (r < d), l the
\* low limb of the dividend, i the bit at hand, q the quotient so far
RECURSIVE DivLow(_, _, _, _, _)
DivLow(r, l, i, d, q) ==
    CHOOSE res \in
      {IF p[3] < 0 THEN p[5]
       ELSE LET bit == (p[2] \div (2^p[3])) % 2
                ge  == p[1] >= p[4] - p[1] - bit
                r2  == IF ge THEN p[1] - (p[4] - p[1] - bit) ELSE 2 * p[1] + bit
            IN  DivLow(r2, p[2], p[3] - 1, p[4], 2 * p[5] + (IF ge THEN 1 ELSE 0)) :
         p \in {<<r, l, i, d, q>>}} : TRUE

\* m / d for an int64 m >= 0 and an int32 d > 0
I64DivMag(m, d) ==
    CHOOSE res \in
      {<<p[1][1] \div p[2], DivLow(p[1][1] % p[2], p[1][2], 19, p[2], 0)>> :
         p \in {<<m, d>>}} : TRUE

\* n / d of C: int64 by (promoted) int32, truncating toward zero; d # 0
I64DivTrunc(n, d) ==
    CHOOSE res \in
      {LET q == I64DivMag(I64Abs(p[1]), IF p[2] < 0 THEN -p[2] ELSE p[2])
       IN  IF I64IsNeg(p[1]) # (p[2] < 0) THEN I64Neg(q) ELSE q : p \in {<<n, d>>}} : TRUE


(***************************************************************************)
(* Configuration (xpt2046_cfg.h is supplied by the application; the values *)
(* below are the ones of the end-to-end scenario: a 12-bit converter, a    *)
(* two-sample filter window, anchors (10,10), (300,10), (10,300)).         *)
(***************************************************************************)
XPT2046_FILTER_WIN_SAMP == 2

XPT2046_DISPLAY_MAX_X == 320

XPT2046_DISPLAY_MAX_Y == 480

XPT2046_LIMIT_FMS_MS == 1000000

Point(px, py) == [x |-> px, y |-> py]

\* g_cal_data.Dp : the predefined display points
Dp == [i \in 0..2 |-> <<Point(10, 10), Point(300, 10), Point(10, 300)>>[i + 1]]

Vec7(a, b, c, d, e, f, g) ==
    CHOOSE r \in {[i \in 0..6 |-> t[i + 1]] : t \in {<<a, b, c, d, e, f, g>>}} : TRUE

(***************************************************************************)
(* Low level interface: the 3-byte reply of one exchange and its decoding. *)
(***************************************************************************)
Reply(b0, b1, b2) == [i \in 0..2 |-> <<b0, b1, b2>>[i + 1]]

\* a reply whose 12-bit result field holds v (res0 and res1 bits set, echo 255)
ReplyOf(v) == Reply(255, (32768 + v * 8 + 5) \div 256, (32768 + v * 8 + 5) % 256)

\* the ADC resolution of the build: 0 selects the 12-bit result field
XPT2046_ADC_RESOLUTION == 0

\* the reference mode of the build
XPT2046_REF_MODE == 0

\* xpt2046_addr_t
eXPT2046_ADDR_Y_POS == 1
eXPT2046_ADDR_Z1_POS == 3
eXPT2046_ADDR_YN == 4
eXPT2046_ADDR_X_POS == 5

\* xpt2046_pd_t
eXPT2046_PD_VREF_ON == 2
eXPT2046_PD_DEVICE_FULLY_ON == 3

\* xpt2046_start_t
eXPT2046_START_ON == 1

\* xpt2046_control_t with the address field directly above the power-down field
xpt2046_control_t_addr_low(pd, ser_dfr, mode, addr, source) ==
    (pd % 4) + (addr % 8) * 4 + (ser_dfr % 2) * 32 + (mode % 2) * 64 + (source % 2) * 128

\* xpt2046_control_t: the byte U read after U = 0 and the assignment of the
\* five bit-fields pd : 2, ser_dfr : 1, mode : 1, addr : 3, source : 1, which
\* the STM32 build allocates from bit 0 upwards; each assignment keeps the low
\* bits of the value that fit the field
xpt2046_control_t(pd, ser_dfr, mode, addr, source) ==
    (pd % 4) + (ser_dfr % 2) * 4 + (mode % 2) * 8 + (addr % 8) * 16 + (source % 2) * 128

\* xpt2046_result_t reading the result from bit 0 of U
xpt2046_result_t_right_justified(U, resolution) ==
    IF resolution = 0 THEN U % 4096 ELSE U % 256

\* xpt2046_result_t: bits.adc_result of the 16-bit word U, for res0 : 3,
\* adc_result : 12, res1 : 1 when the resolution is 0 and res0 : 3,
\* adc_result : 8, res1 : 7 otherwise (allocated from bit 0 upwards)
xpt2046_result_t(U, resolution) ==
    IF resolution = 0 THEN (U \div 8) % 4096 ELSE (U \div 8) % 256

\* the word assembled from the reply: ( rx_data[1] << 8 ) | rx_data[2]
rx_data_w(rx_data) == (rx_data[1] * 256 + rx_data[2]) % 65536

\* xpt2046_low_if_exchange: the ADC result delivered for the reply rx_data
xpt2046_low_if_exchange(rx_data) ==
    xpt2046_result_t(rx_data_w(rx_data), XPT2046_ADC_RESOLUTION)

\* xpt2046_low_if_exchange in a build with the given reference mode and
\* resolution: the control byte sent in tx_data[0] and the ADC result
LowIfExchange(addr, pd_mode, start, ser_dfr, mode, rx_data) ==
    [tx |-> xpt2046_control_t(pd_mode, ser_dfr, mode, addr, start),
     adc |-> xpt2046_result_t(rx_data_w(rx_data), mode)]

\* the four exchanges of xpt2046_read_data_from_controler: address, power-down
\* mode and start bit of the X, Y, Z1 and Z2 conversions
SamplerRequests ==
    {[addr |-> eXPT2046_ADDR_X_POS, pd_mode |-> eXPT2046_PD_DEVICE_FULLY_ON,
      start |-> eXPT2046_START_ON],
     [addr |-> eXPT2046_ADDR_Y_POS, pd_mode |-> eXPT2046_PD_DEVICE_FULLY_ON,
      start |-> eXPT2046_START_ON],
     [addr |-> eXPT2046_ADDR_Z1_POS, pd_mode |-> eXPT2046_PD_DEVICE_FULLY_ON,
      start |-> eXPT2046_START_ON],
     [addr |-> eXPT2046_ADDR_YN, pd_mode |-> eXPT2046_PD_VREF_ON,
      start |-> eXPT2046_START_ON]}

(***************************************************************************)
(* Sampler                                                                 *)
(***************************************************************************)
\* what a float outside the range of uint16_t (or an infinity, a NaN) may
\* convert to: the conversion is undefined
ForceUndefined == {0, 65535}

\* (uint16_t) ((((float) X / 4096.0f) * (((float) Z2 / (float) Z1) - 1.0f)) * 4095.0f),
\* the set of values the conversion can produce; the quotient is taken in
\* exact arithmetic (the sampled Z1, Z2 make the float operations exact)
xpt2046_force(X, Z1, Z2) ==
    IF Z1 = 0 \/ Z2 < Z1 THEN ForceUndefined
    ELSE LET q == I64DivTrunc(I64MulU16(X * (Z2 - Z1), 4095), 4096 * Z1)
         IN  IF q[1] = 0 /\ q[2] <= 65535 THEN {q[2]} ELSE ForceUndefined

\* the sampler returning zeros, not the held values, when the interrupt line
\* is not asserted
xpt2046_read_data_from_controler_zero_released(int, s, f, prev) ==
    IF int = "INT_ON"
    THEN [X |-> xpt2046_low_if_exchange(s.x), Y |-> xpt2046_low_if_exchange(s.y),
          force |-> f, is_pressed |-> TRUE,
          prev |-> [X |-> xpt2046_low_if_exchange(s.x),
                    Y |-> xpt2046_low_if_exchange(s.y), force |-> f]]
    ELSE [X |-> 0, Y |-> 0, force |-> 0, is_pressed |-> FALSE, prev |-> prev]

\* xpt2046_read_data_from_controler: the outputs and the new X_prev, Y_prev,
\* force_prev, for the interrupt line level int, the four replies s and the
\* converted force f; prev is the record of the three statics
xpt2046_read_data_from_controler(int, s, f, prev) ==
    IF int = "INT_ON"
    THEN LET X == xpt2046_low_if_exchange(s.x)
             Y == xpt2046_low_if_exchange(s.y)
         IN  [X |-> X, Y |-> Y, force |-> f, is_pressed |-> TRUE,
              prev |-> [X |-> X, Y |-> Y, force |-> f]]
    ELSE [X |-> prev.X, Y |-> prev.Y, force |-> prev.force, is_pressed |-> FALSE,
          prev |-> prev]

(***************************************************************************)
(* Noise filter                                                            *)
(***************************************************************************)
samp_N == XPT2046_FILTER_WIN_SAMP

RECURSIVE SumBuf(_, _)
SumBuf(buf, n) == IF n = 0 THEN 0 ELSE buf[n - 1] + SumBuf(buf, n - 1)

\* one channel without the fill on a new touch
FilterChannel_no_fill(ch, v, new_touch, cnt) ==
    LET stored == IF cnt < samp_N THEN [ch.samp_buf EXCEPT ![cnt] = v] ELSE ch.samp_buf
    IN  [samp_buf |-> stored, sum |-> SumBuf(stored, samp_N)]

\* one channel: fill on a new touch, store at samp_cnt, sum, average.  A store
\* at samp_cnt = samp_N is outside samp_buf: it lands on the sum member that
\* follows the buffer in xpt2046_filt_data_t, which is zeroed and recomputed
\* before it is read, so no slot of samp_buf changes
FilterChannel(ch, v, new_touch, cnt) ==
    LET filled == IF new_touch THEN [i \in 0..(samp_N - 1) |-> v] ELSE ch.samp_buf
        stored == IF cnt < samp_N THEN [filled EXCEPT ![cnt] = v] ELSE filled
    IN  [samp_buf |-> stored, sum |-> SumBuf(stored, samp_N)]

\* xpt2046_filter_data: the filtered outputs and the new statics
xpt2046_filter_data(in, flt, cnt, t_prev) ==
    LET new_touch == in.is_pressed /\ ~t_prev
        fx == FilterChannel(flt.x, in.X, new_touch, cnt)
        fy == FilterChannel(flt.y, in.Y, new_touch, cnt)
        ff == FilterChannel(flt.force, in.force, new_touch, cnt)
    IN  [X |-> U16(fx.sum \div samp_N), Y |-> U16(fy.sum \div samp_N),
         force |-> U16(ff.sum \div samp_N),
         filter |-> [x |-> fx, y |-> fy, force |-> ff],
         samp_cnt |-> IF cnt >= samp_N THEN 0 ELSE (cnt + 1) % 256,
         touch_prev |-> in.is_pressed]

(***************************************************************************)
(* Affine solver and coordinate mapper                                     *)
(***************************************************************************)
\* (int32_t) (a * m), the product taken in 64 bits
Cast32Mul(a, m) == ToInt32(I64Mul(a, m))

\* xpt2046_calculate_factors
xpt2046_calculate_factors(p_Dp, p_Tp) ==
    LET T0 == p_Tp[0]  T1 == p_Tp[1]  T2 == p_Tp[2]
        D0 == p_Dp[0]  D1 == p_Dp[1]  D2 == p_Dp[2]
    IN  Vec7(
          Sub32(Cast32Mul(T0.x - T2.x, T1.y - T2.y), Cast32Mul(T1.x - T2.x, T0.y - T2.y)),
          Sub32(Cast32Mul(D0.x - D2.x, T1.y - T2.y), Cast32Mul(D1.x - D2.x, T0.y - T2.y)),
          Sub32(Cast32Mul(T0.x - T2.x, D1.x - D2.x), Cast32Mul(D0.x - D2.x, T1.x - T2.x)),
          Add32(Add32(Cast32Mul((T2.x * D1.x) - (T1.x * D2.x), T0.y),
                      Cast32Mul((T0.x * D2.x) - (T2.x * D0.x), T1.y)),
                Cast32Mul((T1.x * D0.x) - (T0.x * D1.x), T2.y)),
          Sub32(Cast32Mul(D0.y - D2.y, T1.y - T2.y), Cast32Mul(D1.y - D2.y, T0.y - T2.y)),
          Sub32(Cast32Mul(T0.x - T2.x, D1.y - D2.y), Cast32Mul(D0.y - D2.y, T1.x - T2.x)),
          Add32(Add32(Cast32Mul((T2.x * D1.y) - (T1.x * D2.y), T0.y),
                      Cast32Mul((T0.x * D2.y) - (T2.x * D0.y), T1.y)),
                Cast32Mul((T1.x * D0.y) - (T0.x * D1.y), T2.y)))

xpt2046_limit_cal_X_data(unlimited_data) ==
    IF unlimited_data < 0 THEN 0
    ELSE IF unlimited_data > XPT2046_DISPLAY_MAX_X THEN XPT2046_DISPLAY_MAX_X
    ELSE unlimited_data

xpt2046_limit_cal_Y_data(unlimited_data) ==
    IF unlimited_data < 0 THEN 0
    ELSE IF unlimited_data > XPT2046_DISPLAY_MAX_Y THEN XPT2046_DISPLAY_MAX_Y
    ELSE unlimited_data

\* (a * Tp.x) + (b * Tp.y) + c in 64 bits
CalNumerator(a, b, c, X, Y) == I64Add(I64Add(I64MulU16(a, X), I64MulU16(b, Y)), I64(c))

\* Dp.x and Dp.y before the limit, for p_factors[0] # 0
CalQuotientX(X, Y, f) == I64DivTrunc(CalNumerator(f[1], f[2], f[3], X, Y), f[0])

CalQuotientY(X, Y, f) == I64DivTrunc(CalNumerator(f[4], f[5], f[6], X, Y), f[0])

\* the limit functions take an int32_t: the 64-bit quotient is converted
LimitArg(q) == ToInt32(q)

\* xpt2046_calibrate_data, for p_factors[0] # 0
xpt2046_calibrate_data(X, Y, f) ==
    [X |-> U16(xpt2046_limit_cal_X_data(LimitArg(CalQuotientX(X, Y, f)))),
     Y |-> U16(xpt2046_limit_cal_Y_data(LimitArg(CalQuotientY(X, Y, f))))]

\* what the two limit functions may receive after a division by zero (the
\* division is undefined; a run-time helper that returns hands back 0 or a
\* saturated quotient, whose low 32 bits are -1)
Div0Outcomes == {0, -1}

(***************************************************************************)
(* Calibration state machine                                               *)
(***************************************************************************)
FsmStates == {"NORMAL", "P1_ACQ", "P2_ACQ", "P3_ACQ", "CALC_FACTORS"}

XPT2046_LIMIT_FMS_DURATION(time) ==
    IF time > XPT2046_LIMIT_FMS_MS THEN XPT2046_LIMIT_FMS_MS ELSE time

\* xpt2046_fms_manager that never clears first_entry
xpt2046_fms_manager_keeps_first_entry(fsm, dt) ==
    IF fsm.state.cur # fsm.state.next
    THEN [fsm EXCEPT !.state.cur = fsm.state.next,
                     !.time.duration = 0,
                     !.time.first_entry = TRUE]
    ELSE [fsm EXCEPT !.time.duration = XPT2046_LIMIT_FMS_DURATION(fsm.time.duration + dt)]

\* xpt2046_fms_manager; dt is HAL_GetTick() - tick
xpt2046_fms_manager(fsm, dt) ==
    IF fsm.state.cur # fsm.state.next
    THEN [fsm EXCEPT !.state.cur = fsm.state.next,
                     !.time.duration = 0,
                     !.time.first_entry = TRUE]
    ELSE [fsm EXCEPT !.time.duration = XPT2046_LIMIT_FMS_DURATION(fsm.time.duration + dt),
                     !.time.first_entry = FALSE]

\* xpt2046_set_cal_point / xpt2046_clear_cal_point: the circle drawn
xpt2046_set_cal_point(px) == <<"circle", Dp[px].x, Dp[px].y, "FG">>

\* xpt2046_clear_cal_point drawing in the foreground colour
xpt2046_clear_cal_point_foreground(px) == <<"circle", Dp[px].x, Dp[px].y, "FG">>

xpt2046_clear_cal_point(px) == <<"circle", Dp[px].x, Dp[px].y, "BG">>

\* the state functions return the new calibration data, FSM, point_touched
\* statics and the display requests they issue
FsmOut(cal, fsm, pt, cmds) == [cal |-> cal, fsm |-> fsm, pt |-> pt, cmds |-> cmds]

\* xpt2046_fsm_normal without the clearing of the request flag
xpt2046_fsm_normal_keeps_start(cal, fsm, pt) ==
    IF cal.start
    THEN FsmOut([cal EXCEPT !.busy = TRUE],
                [fsm EXCEPT !.state.next = "P1_ACQ"], pt, <<>>)
    ELSE FsmOut(cal, fsm, pt, <<>>)

xpt2046_fsm_normal(cal, fsm, pt) ==
    IF cal.start
    THEN FsmOut([cal EXCEPT !.start = FALSE, !.busy = TRUE],
                [fsm EXCEPT !.state.next = "P1_ACQ"], pt, <<>>)
    ELSE FsmOut(cal, fsm, pt, <<>>)

\* the acquisition body leaving the state on a cycle without a press, whether
\* or not the point was touched
AcquirePoint_leaves_untouched(px, entry, nxt, cal, fsm, pt, touch) ==
    IF fsm.time.first_entry
    THEN FsmOut(cal, fsm, [pt EXCEPT ![px] = FALSE], entry)
    ELSE IF ~touch.pressed
    THEN FsmOut(cal, [fsm EXCEPT !.state.next = nxt], pt,
                <<xpt2046_clear_cal_point(px)>>)
    ELSE FsmOut([cal EXCEPT !.Tp[px] = Point(touch.page, touch.col)], fsm,
                [pt EXCEPT ![px] = TRUE], <<>>)

\* the acquisition body storing the position only in cycles that see a press
AcquirePoint_captures_while_pressed(px, entry, nxt, cal, fsm, pt, touch) ==
    IF fsm.time.first_entry
    THEN FsmOut(cal, fsm, [pt EXCEPT ![px] = FALSE], entry)
    ELSE IF ~pt[px]
    THEN FsmOut(cal, fsm, [pt EXCEPT ![px] = touch.pressed], <<>>)
    ELSE IF ~touch.pressed
    THEN FsmOut(cal, [fsm EXCEPT !.state.next = nxt], pt,
                <<xpt2046_clear_cal_point(px)>>)
    ELSE FsmOut([cal EXCEPT !.Tp[px] = Point(touch.page, touch.col)], fsm, pt, <<>>)

\* the body shared by the three acquisition states: px is the point, entry
\* the display requests of the first cycle, nxt the state that follows
AcquirePoint(px, entry, nxt, cal, fsm, pt, touch) ==
    IF fsm.time.first_entry
    THEN FsmOut(cal, fsm, [pt EXCEPT ![px] = FALSE], entry)
    ELSE IF ~pt[px]
    THEN FsmOut(cal, fsm, [pt EXCEPT ![px] = touch.pressed], <<>>)
    ELSE LET acq == [cal EXCEPT !.Tp[px] = Point(touch.page, touch.col)]
         IN  IF ~touch.pressed
             THEN FsmOut(acq, [fsm EXCEPT !.state.next = nxt], pt,
                         <<xpt2046_clear_cal_point(px)>>)
             ELSE FsmOut(acq, fsm, pt, <<>>)

xpt2046_fsm_p1_acq(cal, fsm, pt, touch) ==
    AcquirePoint(0, <<<<"background", "BLACK">>, xpt2046_set_cal_point(0)>>,
                 "P2_ACQ", cal, fsm, pt, touch)

\* xpt2046_fsm_p2_acq handing over to the computation instead of P3_ACQ
xpt2046_fsm_p2_acq_skips_p3(cal, fsm, pt, touch) ==
    AcquirePoint(1, <<xpt2046_set_cal_point(1)>>, "CALC_FACTORS", cal, fsm, pt, touch)

xpt2046_fsm_p2_acq(cal, fsm, pt, touch) ==
    AcquirePoint(1, <<xpt2046_set_cal_point(1)>>, "P3_ACQ", cal, fsm, pt, touch)

xpt2046_fsm_p3_acq(cal, fsm, pt, touch) ==
    AcquirePoint(2, <<xpt2046_set_cal_point(2)>>, "CALC_FACTORS", cal, fsm, pt, touch)

xpt2046_fsm_calc_factors(cal, fsm, pt) ==
    FsmOut([cal EXCEPT !.factors = xpt2046_calculate_factors(Dp, cal.Tp),
                       !.busy = FALSE,
                       !.done = TRUE],
           [fsm EXCEPT !.state.next = "NORMAL"], pt, <<>>)

\* xpt2046_cal_hndl
xpt2046_cal_hndl(cal, fsm, pt, touch, dt) ==
    LET m == xpt2046_fms_manager(fsm, dt)
    IN  CASE m.state.cur = "NORMAL"       -> xpt2046_fsm_normal(cal, m, pt)
          [] m.state.cur = "P1_ACQ"       -> xpt2046_fsm_p1_acq(cal, m, pt, touch)
          [] m.state.cur = "P2_ACQ"       -> xpt2046_fsm_p2_acq(cal, m, pt, touch)
          [] m.state.cur = "P3_ACQ"       -> xpt2046_fsm_p3_acq(cal, m, pt, touch)
          [] m.state.cur = "CALC_FACTORS" -> xpt2046_fsm_calc_factors(cal, m, pt)
          [] OTHER                        -> xpt2046_fsm_normal(cal, m, pt)

(***************************************************************************)
(* Calibration interface                                                   *)
(***************************************************************************)
\* xpt2046_start_calibration without the test of busy
xpt2046_start_calibration_ignores_busy(is_init, cal) ==
    IF is_init
    THEN [status |-> "OK", cal |-> [cal EXCEPT !.start = TRUE, !.done = FALSE]]
    ELSE [status |-> "ERROR", cal |-> cal]

\* xpt2046_start_calibration without the test of gb_is_init
xpt2046_start_calibration_ignores_init(is_init, cal) ==
    IF ~cal.busy
    THEN [status |-> "OK", cal |-> [cal EXCEPT !.start = TRUE, !.done = FALSE]]
    ELSE [status |-> "CAL_IN_PROGRESS", cal |-> cal]

\* xpt2046_start_calibration that also resets the stored coefficients
xpt2046_start_calibration_clears_factors(is_init, cal) ==
    IF is_init
    THEN IF ~cal.busy
         THEN [status |-> "OK",
               cal |-> [cal EXCEPT !.start = TRUE, !.done = FALSE, !.factors = Vec7(0, 0, 0, 0, 0, 0, 0)]]
         ELSE [status |-> "CAL_IN_PROGRESS", cal |-> cal]
    ELSE [status |-> "ERROR", cal |-> cal]

\* xpt2046_start_calibration: the status returned and the new calibration data
xpt2046_start_calibration(is_init, cal) ==
    IF is_init
    THEN IF ~cal.busy
         THEN [status |-> "OK", cal |-> [cal EXCEPT !.start = TRUE, !.done = FALSE]]
         ELSE [status |-> "CAL_IN_PROGRESS", cal |-> cal]
    ELSE [status |-> "ERROR", cal |-> cal]

\* xpt2046_set_cal_factors that also ends a calibration in progress
xpt2046_set_cal_factors_clears_busy(cal, p_factors) ==
    [cal EXCEPT !.done = TRUE, !.factors = p_factors, !.busy = FALSE]

\* xpt2046_set_cal_factors
xpt2046_set_cal_factors(cal, p_factors) ==
    [cal EXCEPT !.done = TRUE, !.factors = p_factors]

\* xpt2046_get_cal_factors: the assignment is to the parameter, a copy of the
\* caller's pointer; what the caller's array holds afterwards
xpt2046_get_cal_factors(cal, caller_array) ==
    LET p_factors == cal.factors
    IN  caller_array

(***************************************************************************)
(* State                                                                   *)
(***************************************************************************)
VARIABLES
    gb_is_init,     \* initialization done flag
    g_touch,        \* touch data: page, col, force, pressed
    g_cal_data,     \* calibration data: Tp, factors, start, busy, done
    g_cal_fsm,      \* FSM handler: time.duration, time.first_entry, state.cur, state.next
    point_touched,  \* the point_touched statics of the three acquisition states
    sampler_prev,   \* X_prev, Y_prev, force_prev of the sampler
    filter,         \* the filter objects x, y, force
    samp_cnt,       \* sample counter of the filter
    touch_prev,     \* previous touch state of the filter
    lcd,            \* display: markers shown, requests of the last cycle
    caller,         \* the array a caller handed to xpt2046_get_cal_factors
    ret,            \* the last operation, its status and what it executed
    halted,         \* the processor trapped on a division by zero
    runs,           \* calibration requests accepted so far
    pure,           \* solver and mapper applied to given inputs (SolverSpec, MapperSpec)
    spi_status,     \* how the transfers of the last cycle ended
    pressed_before, \* g_touch.pressed as published by the cycle before the last one
    set_cal         \* the call of xpt2046_set_cal_factors in progress, if any

vars == <<gb_is_init, g_touch, g_cal_data, g_cal_fsm, point_touched, sampler_prev,
          filter, samp_cnt, touch_prev, lcd, caller, ret, halted, runs, pure,
          spi_status,
                   pressed_before, set_cal>>

(***************************************************************************)
(* Bounds and inputs                                                       *)
(***************************************************************************)
MaxRuns == 2

\* the four replies of one pressed cycle: X, Y, Z1, Z2
SampleOf(p) == [x |-> ReplyOf(p[1]), y |-> ReplyOf(p[2]),
                z1 |-> ReplyOf(1024), z2 |-> ReplyOf(3072)]

\* the touch points of the end-to-end scenario, as raw conversion results
ScenarioPoints == {<<100, 100>>, <<2000, 100>>, <<100, 2000>>}

ScenarioSamples == {SampleOf(p) : p \in ScenarioPoints}

\* the place touched under Spec
Samples == {SampleOf(<<100, 100>>)}

\* tick differences between two cycles
TickDeltas == {XPT2046_LIMIT_FMS_MS + 1}

ZeroFactors == Vec7(0, 0, 0, 0, 0, 0, 0)

\* the coefficients of the end-to-end scenario
ScenarioFactors == Vec7(3610000, 551000, 0, -19000000, 0, 551000, -19000000)

\* coefficient sets a caller injects under Spec
InjectedFactors == {ZeroFactors, ScenarioFactors}

\* what a caller's array holds before xpt2046_get_cal_factors
CallerArray == Vec7(-1, -1, -1, -1, -1, -1, -1)

Ret(o, st, rn, dz) == [op |-> o, status |-> st, ran |-> rn, div0 |-> dz]

ZeroChannel == [samp_buf |-> [i \in 0..(samp_N - 1) |-> 0], sum |-> 0]

NoPure == [stage |-> "none", Tp |-> [i \in 0..2 |-> Point(0, 0)], factors |-> ZeroFactors,
           raw |-> Point(0, 0), out |-> <<>>]

\* no call of xpt2046_set_cal_factors in progress
NoSetCal == [pc |-> "idle", p_factors |-> ZeroFactors, copied |-> {}]

\* the state of the module before xpt2046_init
InitModule ==
    /\ gb_is_init = FALSE
    /\ g_touch = [page |-> 0, col |-> 0, force |-> 0, pressed |-> FALSE]
    /\ g_cal_data = [Tp |-> [i \in 0..2 |-> Point(0, 0)],
                     factors |-> ZeroFactors,
                     start |-> FALSE, busy |-> FALSE, done |-> FALSE]
    /\ g_cal_fsm = [time |-> [duration |-> 0, first_entry |-> FALSE],
                    state |-> [cur |-> "NORMAL", next |-> "NORMAL"]]
    /\ point_touched = [i \in 0..2 |-> FALSE]
    /\ sampler_prev = [X |-> 0, Y |-> 0, force |-> 0]
    /\ filter = [x |-> ZeroChannel, y |-> ZeroChannel, force |-> ZeroChannel]
    /\ samp_cnt = 0
    /\ touch_prev = FALSE
    /\ lcd = [shown |-> {}, cmds |-> <<>>]
    /\ caller = CallerArray
    /\ ret = Ret("none", "OK", "none", FALSE)
    /\ halted = FALSE
    /\ runs = 0
    /\ spi_status = "IDLE"
    /\ pressed_before = FALSE
    /\ set_cal = NoSetCal

Init == InitModule /\ pure = NoPure

(***************************************************************************)
(* Operations                                                              *)
(***************************************************************************)
\* xpt2046_init; st is the status of xpt2046_if_init
Initialize ==
    /\ ~gb_is_init /\ ~halted
    /\ \E st \in {"OK", "ERROR"} :
        /\ g_cal_fsm' = [time |-> [duration |-> 0, first_entry |-> FALSE],
                         state |-> [cur |-> "NORMAL", next |-> "NORMAL"]]
        /\ gb_is_init' = TRUE
        /\ ret' = Ret("init", st, "none", FALSE)
    /\ UNCHANGED <<g_touch, g_cal_data, point_touched, sampler_prev, filter, samp_cnt,
                   touch_prev, lcd, caller, halted, runs, pure,
                   spi_status,
                   pressed_before, set_cal>>

\* the display after the requests of one cycle
RECURSIVE Shown(_, _)
Shown(shown, cmds) ==
    IF cmds = <<>> THEN shown
    ELSE LET c == Head(cmds)
             s == IF c[1] = "background" THEN {}
                  ELSE IF c[4] = "FG" THEN shown \cup {<<c[2], c[3]>>}
                  ELSE shown \ {<<c[2], c[3]>>}
         IN  Shown(s, Tail(cmds))

\* the part of xpt2046_hndl after the mapping: store, then calibration handler
StoreAndHandle(X, Y, fl, dt, dz) ==
    \E touch \in {[page |-> X, col |-> Y, force |-> fl.force, pressed |-> fl.pressed]} :
    \E out \in {xpt2046_cal_hndl(g_cal_data, g_cal_fsm, point_touched, touch, dt)} :
        /\ g_touch' = touch
        /\ g_cal_data' = out.cal
        /\ g_cal_fsm' = out.fsm
        /\ point_touched' = out.pt
        /\ lcd' = [shown |-> Shown(lcd.shown, out.cmds), cmds |-> out.cmds]
        /\ ret' = Ret("hndl", "OK", out.fsm.state.cur, dz)
        /\ halted' = FALSE
        /\ pressed_before' = g_touch.pressed

\* xpt2046_hndl: one cycle, for the interrupt line level, the replies of the
\* controller, the converted force and the tick difference
Hndl(int, s, f, dt) ==
    /\ gb_is_init /\ ~halted
    /\ \E rd \in {xpt2046_read_data_from_controler(int, s, f, sampler_prev)} :
       \E fd \in {xpt2046_filter_data(rd, filter, samp_cnt, touch_prev)} :
       \E fl \in {[X |-> fd.X, Y |-> fd.Y, force |-> fd.force, pressed |-> rd.is_pressed]} :
           /\ sampler_prev' = rd.prev
           /\ filter' = fd.filter
           /\ samp_cnt' = fd.samp_cnt
           /\ touch_prev' = fd.touch_prev
           /\ IF ~g_cal_data.done
              THEN StoreAndHandle(fl.X, fl.Y, fl, dt, FALSE)
              ELSE IF g_cal_data.factors[0] # 0
              THEN \E c \in {xpt2046_calibrate_data(fl.X, fl.Y, g_cal_data.factors)} :
                       StoreAndHandle(c.X, c.Y, fl, dt, FALSE)
              ELSE \* division by zero: a trap, or some quotient
                   \/ /\ halted' = TRUE
                      /\ ret' = Ret("hndl", "OK", "none", TRUE)
                      /\ UNCHANGED <<g_touch, g_cal_data, g_cal_fsm, point_touched, lcd,
                                     pressed_before>>
                   \/ \E q \in Div0Outcomes :
                         StoreAndHandle(U16(xpt2046_limit_cal_X_data(q)),
                                        U16(xpt2046_limit_cal_Y_data(q)), fl, dt, TRUE)
    /\ UNCHANGED <<gb_is_init, caller, runs, pure, set_cal>>

\* a cycle with the interrupt line asserted: four exchanges
HndlPressed(S) ==
    /\ \E s \in S, dt \in TickDeltas :
         \E f \in xpt2046_force(xpt2046_low_if_exchange(s.x),
                                xpt2046_low_if_exchange(s.z1),
                                xpt2046_low_if_exchange(s.z2)) :
           Hndl("INT_ON", s, f, dt)
    /\ spi_status' = "OK"

\* a cycle with the interrupt line not asserted: no exchange
NoSample ==
    [x |-> Reply(0, 0, 0), y |-> Reply(0, 0, 0), z1 |-> Reply(0, 0, 0), z2 |-> Reply(0, 0, 0)]

HndlReleased ==
    /\ \E dt \in TickDeltas : Hndl("INT_OFF", NoSample, 0, dt)
    /\ spi_status' = "IDLE"

\* xpt2046_start_calibration
StartCalibration ==
    /\ ~halted
    /\ LET r == xpt2046_start_calibration(gb_is_init, g_cal_data)
       IN  /\ r.status = "OK" => runs < MaxRuns
           /\ g_cal_data' = r.cal
           /\ ret' = Ret("start_calibration", r.status, "none", FALSE)
           /\ runs' = IF r.status = "OK" THEN runs + 1 ELSE runs
    /\ UNCHANGED <<gb_is_init, g_touch, g_cal_fsm, point_touched, sampler_prev, filter,
                   samp_cnt, touch_prev, lcd, caller, halted, pure,
                   spi_status,
                   pressed_before, set_cal>>

\* xpt2046_set_cal_factors
SetCalFactors ==
    /\ ~halted
    /\ \E p_factors \in InjectedFactors :
        g_cal_data' = xpt2046_set_cal_factors(g_cal_data, p_factors)
    /\ ret' = Ret("set_cal_factors", "OK", "none", FALSE)
    /\ UNCHANGED <<gb_is_init, g_touch, g_cal_fsm, point_touched, sampler_prev, filter,
                   samp_cnt, touch_prev, lcd, caller, halted, runs, pure,
                   spi_status,
                   pressed_before, set_cal>>

\* xpt2046_get_cal_factors
GetCalFactors ==
    /\ ~halted
    /\ caller' = xpt2046_get_cal_factors(g_cal_data, CallerArray)
    /\ ret' = Ret("get_cal_factors", "OK", "none", FALSE)
    /\ UNCHANGED <<gb_is_init, g_touch, g_cal_data, g_cal_fsm, point_touched,
                   sampler_prev, filter, samp_cnt, touch_prev, lcd, halted, runs, pure,
                   spi_status,
                   pressed_before, set_cal>>

\* xpt2046_get_touch: copies g_touch to the caller; asserts gb_is_init
GetTouch ==
    /\ gb_is_init /\ ~halted
    /\ ret' = Ret("get_touch", "OK", "none", FALSE)
    /\ UNCHANGED <<gb_is_init, g_touch, g_cal_data, g_cal_fsm, point_touched,
                   sampler_prev, filter, samp_cnt, touch_prev, lcd, caller, halted, runs,
                   pure, spi_status, pressed_before, set_cal>>

\* xpt2046_is_calibrated: returns g_cal_data.done
IsCalibrated ==
    /\ ~halted
    /\ ret' = Ret("is_calibrated", IF g_cal_data.done THEN "TRUE" ELSE "FALSE", "none", FALSE)
    /\ UNCHANGED <<gb_is_init, g_touch, g_cal_data, g_cal_fsm, point_touched,
                   sampler_prev, filter, samp_cnt, touch_prev, lcd, caller, halted, runs,
                   pure, spi_status, pressed_before, set_cal>>

Next ==
    \/ Initialize
    \/ HndlPressed(Samples)
    \/ HndlReleased
    \/ StartCalibration
    \/ SetCalFactors
    \/ GetCalFactors
    \/ GetTouch
    \/ IsCalibrated

Spec == Init /\ [][Next]_vars

(***************************************************************************)
(* One calibration requested and driven by touches at the scenario points, *)
(* the handler being called periodically.                                  *)
(***************************************************************************)
StartCalibrationOnce == runs = 0 /\ StartCalibration

Cycle == HndlPressed(ScenarioSamples) \/ HndlReleased

LiveNext ==
    \/ Initialize
    \/ StartCalibrationOnce
    \/ Cycle

LiveSpec == Init /\ [][LiveNext]_vars /\ WF_vars(Cycle)

(***************************************************************************)
(* The solver applied to three captured points, then the mapper applied to *)
(* each of them.                                                           *)
(***************************************************************************)
\* raw coordinates of captured points: the corners of the 12-bit range and
\* the scenario points
SolverPoints == {<<0, 0>>, <<4095, 0>>, <<0, 4095>>, <<4095, 4095>>} \cup ScenarioPoints

\* (T0.x - T2.x) * (T1.y - T2.y) - (T1.x - T2.x) * (T0.y - T2.y) = 0
Collinear(Tp) ==
    ((Tp[0].x - Tp[2].x) * (Tp[1].y - Tp[2].y))
      - ((Tp[1].x - Tp[2].x) * (Tp[0].y - Tp[2].y)) = 0

SolverInit ==
    /\ InitModule
    /\ \E a \in SolverPoints, b \in SolverPoints, c \in SolverPoints :
         pure = [NoPure EXCEPT !.stage = "captured",
                               !.Tp = [i \in 0..2 |->
                                         IF i = 0 THEN Point(a[1], a[2])
                                         ELSE IF i = 1 THEN Point(b[1], b[2])
                                         ELSE Point(c[1], c[2])]]

\* xpt2046_calculate_factors on the captured points, stored as in
\* xpt2046_fsm_calc_factors
Solve ==
    /\ pure.stage = "captured"
    /\ pure' = [pure EXCEPT !.stage = "solved",
                            !.factors = xpt2046_calculate_factors(Dp, pure.Tp)]
    /\ UNCHANGED <<gb_is_init, g_touch, g_cal_data, g_cal_fsm, point_touched, sampler_prev,
                   filter, samp_cnt, touch_prev, lcd, caller, ret, halted, runs,
                   spi_status,
                   pressed_before, set_cal>>

\* xpt2046_calibrate_data on each captured point
ApplyToCaptured ==
    /\ pure.stage = "solved"
    /\ pure.factors[0] # 0
    /\ pure' = [pure EXCEPT !.stage = "mapped",
                            !.out = [i \in 1..3 |->
                                       xpt2046_calibrate_data(pure.Tp[i - 1].x,
                                                              pure.Tp[i - 1].y,
                                                              pure.factors)]]
    /\ UNCHANGED <<gb_is_init, g_touch, g_cal_data, g_cal_fsm, point_touched, sampler_prev,
                   filter, samp_cnt, touch_prev, lcd, caller, ret, halted, runs,
                   spi_status,
                   pressed_before, set_cal>>

SolverNext ==
    \/ Solve
    \/ ApplyToCaptured

SolverSpec == SolverInit /\ [][SolverNext]_vars

(***************************************************************************)
(* The mapper applied to a raw point under stored coefficients.            *)
(***************************************************************************)
\* stored coefficient sets with k0 # 0
MapperFactors ==
    {ScenarioFactors,
     Vec7(1, 1048576, 0, 0, 0, 1, 0),
     Vec7(1, 1, 0, -100, 0, 1, -100),
     Vec7(-7, 1000, 0, 0, 0, -1000, 5000),
     Vec7(2147483647, 2147483647, 0, 0, 0, -2147483647, 0)}

\* raw coordinates handed to the mapper
MapperCoords == {0, 100, 2000, 4095, 65535}

MapperInit ==
    /\ InitModule
    /\ \E f \in MapperFactors, x \in MapperCoords, y \in MapperCoords :
         pure = [NoPure EXCEPT !.stage = "stored", !.factors = f, !.raw = Point(x, y)]

\* xpt2046_calibrate_data on the raw point
ApplyToRaw ==
    /\ pure.stage = "stored"
    /\ pure' = [pure EXCEPT !.stage = "mapped",
                            !.out = <<xpt2046_calibrate_data(pure.raw.x, pure.raw.y,
                                                             pure.factors)>>]
    /\ UNCHANGED <<gb_is_init, g_touch, g_cal_data, g_cal_fsm, point_touched, sampler_prev,
                   filter, samp_cnt, touch_prev, lcd, caller, ret, halted, runs,
                   spi_status,
                   pressed_before, set_cal>>

MapperNext == ApplyToRaw

MapperSpec == MapperInit /\ [][MapperNext]_vars

(***************************************************************************)
(* The low level exchange on its own: every request, both reference modes  *)
(* and both resolutions, and replies that carry a value in the result      *)
(* field among other bits.                                                 *)
(***************************************************************************)
\* values placed in the result field: every single bit, the alternating
\* patterns and both ends of the 12-bit range
CodecValues == {0, 1, 2, 4, 8, 16, 32, 64, 128, 255, 256, 512, 1024, 2048, 1365, 2730, 4095}

\* the number of values of the result field for a resolution
ResultRange(mode) == IF mode = 0 THEN 4096 ELSE 256

\* the reply whose result field holds v, with b0 in reply byte 0, res0 in the
\* three bits below the field and res1 in the bits above it
ReplyWith(v, b0, res0, res1, mode) ==
    Reply(b0, (res0 + v * 8 + res1 * 8 * ResultRange(mode)) \div 256,
              (res0 + v * 8 + res1 * 8 * ResultRange(mode)) % 256)

CodecInit ==
    /\ InitModule
    /\ \E addr \in 0..7, pd_mode \in 0..3, start \in 0..1, ser_dfr \in 0..1, mode \in 0..1 :
         \E v \in {w \in CodecValues : w < ResultRange(mode)}, b0 \in {0, 255},
            res0 \in {0, 7}, res1 \in {0, (65536 \div (8 * ResultRange(mode))) - 1} :
           pure = [stage |-> "request", addr |-> addr, pd_mode |-> pd_mode, start |-> start,
                   ser_dfr |-> ser_dfr, mode |-> mode, v |-> v,
                   rx_data |-> ReplyWith(v, b0, res0, res1, mode),
                   tx |-> 0, adc |-> 0]

\* xpt2046_low_if_exchange of the request, answered by the reply
Exchange ==
    /\ pure.stage = "request"
    /\ \E r \in {LowIfExchange(pure.addr, pure.pd_mode, pure.start, pure.ser_dfr,
                                 pure.mode, pure.rx_data)} :
         pure' = [pure EXCEPT !.stage = "exchanged", !.tx = r.tx, !.adc = r.adc]
    /\ UNCHANGED <<gb_is_init, g_touch, g_cal_data, g_cal_fsm, point_touched, sampler_prev,
                   filter, samp_cnt, touch_prev, lcd, caller, ret, halted, runs,
                   spi_status,
                   pressed_before, set_cal>>

CodecNext == Exchange

CodecSpec == CodecInit /\ [][CodecNext]_vars

(***************************************************************************)
(* The sampler and the filter, cycle after cycle, with the touch moving    *)
(* between the scenario points and with transfers that fail.               *)
(***************************************************************************)
\* what rx_data may hold after a transfer that failed: spi_2_transmit_receive
\* reports nothing to xpt2046_low_if_exchange, and rx_data is a local that is
\* not initialized (bus idle low, bus idle high)
FaultReplies == {Reply(0, 0, 0), Reply(255, 255, 255)}

\* a cycle with the interrupt line asserted whose four transfers fail
HndlFault ==
    /\ \E r \in FaultReplies, dt \in TickDeltas :
         \E f \in xpt2046_force(xpt2046_low_if_exchange(r),
                                xpt2046_low_if_exchange(r),
                                xpt2046_low_if_exchange(r)) :
           Hndl("INT_ON", [x |-> r, y |-> r, z1 |-> r, z2 |-> r], f, dt)
    /\ spi_status' = "FAULT"

SamplerNext ==
    \/ Initialize
    \/ HndlPressed(ScenarioSamples)
    \/ HndlFault
    \/ HndlReleased

SamplerSpec == Init /\ [][SamplerNext]_vars

(***************************************************************************)
(* Sampler and filter with every transfer succeeding: a finger moving over *)
(* the scenario points, pressed and released at will.                      *)
(***************************************************************************)
\* the places the finger passes: the scenario points and the far corner
FilterSamples == ScenarioSamples \cup {SampleOf(<<2000, 2000>>)}

FilterNext == Initialize \/ HndlPressed(FilterSamples) \/ HndlReleased

FilterSpec == Init /\ [][FilterNext]_vars

(***************************************************************************)
(* xpt2046_set_cal_factors called in one execution context while           *)
(* xpt2046_hndl runs in another: the handler may run between any two       *)
(* stores of the call.  The order in which memcpy writes the seven words   *)
(* is not fixed.                                                           *)
(***************************************************************************)
\* coefficient sets injected under RaceSpec
RaceFactors == {ScenarioFactors, Vec7(1, 1, 0, 0, 0, 1, 0)}

\* xpt2046_set_cal_factors, first statement: g_cal_data.done = true
SetCalFactorsDone ==
    /\ ~halted
    /\ set_cal.pc = "idle"
    /\ \E p_factors \in RaceFactors :
         set_cal' = [pc |-> "memcpy", p_factors |-> p_factors, copied |-> {}]
    /\ g_cal_data' = [g_cal_data EXCEPT !.done = TRUE]
    /\ UNCHANGED <<gb_is_init, g_touch, g_cal_fsm, point_touched, sampler_prev, filter,
                   samp_cnt, touch_prev, lcd, caller, ret, halted, runs, pure, spi_status,
                   pressed_before>>

\* xpt2046_set_cal_factors, memcpy: one more word of g_cal_data.factors
\* written; the call returns after the seventh
SetCalFactorsCopy ==
    /\ ~halted
    /\ set_cal.pc = "memcpy"
    /\ \E i \in (0..6) \ set_cal.copied :
         /\ g_cal_data' = [g_cal_data EXCEPT !.factors[i] = set_cal.p_factors[i]]
         /\ IF set_cal.copied \cup {i} = 0..6
            THEN /\ set_cal' = NoSetCal
                 /\ ret' = Ret("set_cal_factors", "OK", "none", FALSE)
            ELSE /\ set_cal' = [set_cal EXCEPT !.copied = set_cal.copied \cup {i}]
                 /\ ret' = ret
    /\ UNCHANGED <<gb_is_init, g_touch, g_cal_fsm, point_touched, sampler_prev, filter,
                   samp_cnt, touch_prev, lcd, caller, halted, runs, pure, spi_status,
                   pressed_before>>

RaceNext ==
    \/ Initialize
    \/ SetCalFactorsDone
    \/ SetCalFactorsCopy
    \/ HndlPressed(Samples)
    \/ HndlReleased

RaceSpec == Init /\ [][RaceNext]_vars

(***************************************************************************)
(* Properties                                                              *)
(***************************************************************************)
\* C1: in every reachable state, done is false whenever busy is true.
C1_DoneFalseWhileBusy == g_cal_data.busy => ~g_cal_data.done

\* C2: xpt2046_start_calibration called while busy returns CAL_IN_PROGRESS
\* and changes neither the calibration data (factors, start, busy, done,
\* touch points) nor the FSM.
C2_RejectedWhileBusy ==
    [][(ret'.op = "start_calibration" /\ g_cal_data.busy)
         => /\ ret'.status = "CAL_IN_PROGRESS"
            /\ g_cal_data' = g_cal_data
            /\ g_cal_fsm' = g_cal_fsm]_vars

C2_Witness ==
    /\ ret.op = "start_calibration"
    /\ ret.status = "CAL_IN_PROGRESS"
    /\ g_cal_data.busy
    /\ g_cal_fsm.state.cur = "P3_ACQ"

\* C3: after every cycle and every public call, busy and start are never
\* both true.
C3_NeverBusyAndStart == ~(g_cal_data.busy /\ g_cal_data.start)

\* a second request, made after a first calibration went through, was taken
\* up by a cycle
C3_Witness ==
    /\ runs = 2
    /\ ret.op = "hndl"
    /\ ret.ran = "NORMAL"
    /\ g_cal_data.busy
    /\ g_cal_fsm.state.next = "P1_ACQ"
    /\ g_cal_data.Tp[2] = Point(100, 100)

FsmSucc == [st \in FsmStates |->
              CASE st = "NORMAL"       -> "P1_ACQ"
                [] st = "P1_ACQ"       -> "P2_ACQ"
                [] st = "P2_ACQ"       -> "P3_ACQ"
                [] st = "P3_ACQ"       -> "CALC_FACTORS"
                [] st = "CALC_FACTORS" -> "NORMAL"]

\* C4: state.cur only changes in a cycle, and only to the state that follows
\* it in NORMAL -> P1_ACQ -> P2_ACQ -> P3_ACQ -> CALC_FACTORS -> NORMAL; the
\* cycle in which the NORMAL state hands over (sets the next state) is one that
\* found start true, and it clears start and sets busy.
C4_FsmOrder ==
    [][/\ g_cal_fsm'.state.cur # g_cal_fsm.state.cur
            => /\ ret'.op = "hndl"
               /\ g_cal_fsm'.state.cur = FsmSucc[g_cal_fsm.state.cur]
       /\ (ret'.op = "hndl" /\ ret'.ran = "NORMAL" /\ g_cal_fsm'.state.next # "NORMAL")
            => /\ g_cal_data.start
               /\ ~g_cal_data'.start
               /\ g_cal_data'.busy
               /\ g_cal_fsm'.state.next = "P1_ACQ"]_vars

\* the FSM is back in NORMAL after the computation
C4_Witness ==
    /\ ret.op = "hndl"
    /\ ret.ran = "NORMAL"
    /\ g_cal_fsm.time.first_entry
    /\ runs >= 1
    /\ ~g_cal_data.busy

\* the cycle in which P3_ACQ hands over to CALC_FACTORS: as the FSM only
\* advances from an acquisition state after a press seen past its entry cycle
\* and a release seen after it, each of the three phases has then seen a press
\* followed by a release, in order
AllPointsAcquired ==
    /\ ret.op = "hndl"
    /\ ret.ran = "P3_ACQ"
    /\ g_cal_fsm.state.next = "CALC_FACTORS"
    /\ \A i \in 0..2 : point_touched[i]

Completed ==
    /\ g_cal_data.done
    /\ ~g_cal_data.busy
    /\ g_cal_fsm.state.cur = "NORMAL"

\* C5: after an accepted calibration request, with the handler called
\* periodically, once each of the three acquisition phases has seen a press
\* and then a release, eventually done is true, busy is false and the FSM is
\* back in NORMAL.
C5_CalibrationCompletes == AllPointsAcquired ~> Completed

\* C6: when the three captured points are collinear, the cycle that runs
\* CALC_FACTORS hands over to NORMAL with busy false and done not set.
C6_CollinearAborts ==
    (ret.op = "hndl" /\ ret.ran = "CALC_FACTORS" /\ Collinear(g_cal_data.Tp))
      => /\ ~g_cal_data.done
         /\ ~g_cal_data.busy
         /\ g_cal_fsm.state.next = "NORMAL"

\* C7: no cycle performs the mapper's division with factors[0] = 0.
C7_NoDivisionByZero == ~ret.div0

\* the clamp of a 64-bit quotient to [0, max]
Clamped(q, max) ==
    IF I64IsNeg(q) THEN 0
    ELSE IF I64Less(I64(max), q) THEN max
    ELSE q[2]

\* C8: for non-collinear captured points in the 12-bit range, the stored
\* coefficients map each captured point to its anchor on both axes.
C8_ExactAtCapturedPoints ==
    (pure.stage = "mapped" /\ Len(pure.out) = 3 /\ ~Collinear(pure.Tp))
      => \A i \in 0..2 : /\ pure.out[i + 1].X = Dp[i].x
                         /\ pure.out[i + 1].Y = Dp[i].y

\* C9: for stored coefficients with factors[0] # 0 and a 16-bit raw point,
\* each axis of the mapper's output is the truncated 64-bit quotient clamped
\* to [0, max]: the quotient itself inside the range, max above it, 0 below.
C9_ClampedQuotient ==
    (pure.stage = "mapped" /\ Len(pure.out) = 1)
      => /\ pure.out[1].X = Clamped(CalQuotientX(pure.raw.x, pure.raw.y, pure.factors),
                                    XPT2046_DISPLAY_MAX_X)
         /\ pure.out[1].Y = Clamped(CalQuotientY(pure.raw.x, pure.raw.y, pure.factors),
                                    XPT2046_DISPLAY_MAX_Y)

\* C10: xpt2046_get_cal_factors leaves in the caller's array the seven
\* coefficients currently stored.
C10_GetDeliversStored == ret.op = "get_cal_factors" => caller = g_cal_data.factors

\* C11: xpt2046_set_cal_factors stores the coefficients handed in and sets
\* done; the FSM, start, busy, the captured points, the touch data and the
\* statics of the acquisition states are as before the call.
C11_SetFactorsFrame ==
    [][ret'.op = "set_cal_factors"
         => /\ g_cal_data'.factors \in InjectedFactors
            /\ g_cal_data'.done
            /\ g_cal_data' = [g_cal_data EXCEPT !.done = TRUE,
                                                !.factors = g_cal_data'.factors]
            /\ g_cal_fsm' = g_cal_fsm
            /\ g_touch' = g_touch
            /\ point_touched' = point_touched]_vars

\* coefficients injected while the second point is being acquired
C11_Witness ==
    /\ ret.op = "set_cal_factors"
    /\ g_cal_data.factors = ScenarioFactors
    /\ g_cal_data.done
    /\ g_cal_data.busy
    /\ g_cal_fsm.state.cur = "P2_ACQ"
    /\ point_touched[1]

\* the acquisition states and the point each of them acquires
AcqPoint == [st \in {"P1_ACQ", "P2_ACQ", "P3_ACQ"} |->
               CASE st = "P1_ACQ" -> 0
                 [] st = "P2_ACQ" -> 1
                 [] st = "P3_ACQ" -> 2]

\* C12: busy, once true, only becomes false in the cycle that runs
\* CALC_FACTORS; CALC_FACTORS is only entered with all three points touched;
\* a cycle of an acquisition state that sees no press and whose point is not
\* touched leaves the FSM in that state, whatever the time spent in it.
C12_NoCancellation ==
    [][/\ (g_cal_data.busy /\ ~g_cal_data'.busy)
            => (ret'.op = "hndl" /\ ret'.ran = "CALC_FACTORS")
       /\ g_cal_fsm'.state.next = "CALC_FACTORS"
            => \A i \in 0..2 : point_touched'[i]
       /\ (/\ ret'.op = "hndl"
           /\ ret'.ran \in DOMAIN AcqPoint
           /\ ~g_touch'.pressed
           /\ ~point_touched'[AcqPoint[IF ret'.ran \in DOMAIN AcqPoint
                                       THEN ret'.ran ELSE "P1_ACQ"]])
            => /\ g_cal_fsm'.state.next = ret'.ran
               /\ g_cal_data'.busy]_vars

\* an acquisition state waited in, untouched, beyond the limit of the FSM timer
C12_Witness ==
    /\ ret.op = "hndl"
    /\ ret.ran = "P2_ACQ"
    /\ ~g_touch.pressed
    /\ ~point_touched[1]
    /\ g_cal_fsm.time.duration = XPT2046_LIMIT_FMS_MS
    /\ g_cal_fsm.state.next = "P2_ACQ"
    /\ g_cal_data.busy

\* C13: a cycle with the interrupt line not asserted reports pressed false
\* and hands on the X, Y and force of the last cycle in which the line was
\* asserted (X_prev, Y_prev, force_prev, which it leaves as they are): these
\* are the values the filter stores at samp_cnt.
C13_SampleAndHold ==
    [][(ret'.op = "hndl" /\ spi_status' = "IDLE")
         => /\ sampler_prev' = sampler_prev
            /\ ~touch_prev'
            /\ ~g_touch'.pressed
            /\ samp_cnt < samp_N
                 => /\ filter'.x.samp_buf[samp_cnt] = sampler_prev.X
                    /\ filter'.y.samp_buf[samp_cnt] = sampler_prev.Y
                    /\ filter'.force.samp_buf[samp_cnt] = sampler_prev.force]_vars

\* released cycles after a press at (2000, 100): the held sample is in both
\* slots and the sample counter stands at samp_N
C13_Witness ==
    /\ ret.op = "hndl"
    /\ spi_status = "IDLE"
    /\ ~g_touch.pressed
    /\ sampler_prev.X = 2000
    /\ sampler_prev.Y = 100
    /\ filter.x.samp_buf = [i \in 0..(samp_N - 1) |-> 2000]
    /\ samp_cnt = samp_N

\* C14: a cycle whose transfers fail while the interrupt line is asserted
\* publishes pressed false and leaves the held sample and the filter's
\* touch state as a cycle without a touch does.
C14_FaultAbsorbed ==
    [][(ret'.op = "hndl" /\ spi_status' = "FAULT")
         => /\ ~g_touch'.pressed
            /\ sampler_prev' = sampler_prev
            /\ ~touch_prev']_vars

\* C15: every cycle stores its sample at an index below samp_N.
C15_WriteIndexInBuffer == [][ret'.op = "hndl" => samp_cnt < samp_N]_vars

\* C16: in a cycle that reports pressed after a cycle that did not, the
\* filtered X, Y and force are the sample of that cycle.
C16_HistoryReset ==
    [][(ret'.op = "hndl" /\ touch_prev' /\ ~touch_prev)
         => /\ g_touch'.pressed
            /\ g_touch'.page = sampler_prev'.X
            /\ g_touch'.col = sampler_prev'.Y
            /\ g_touch'.force = sampler_prev'.force
            /\ \A i \in 0..(samp_N - 1) : filter'.x.samp_buf[i] = sampler_prev'.X]_vars

\* a press at (2000, 100) published unaveraged, the store of the cycle having
\* wrapped the sample counter
C16_Witness ==
    /\ ret.op = "hndl"
    /\ spi_status = "OK"
    /\ g_touch.pressed
    /\ g_touch.page = 2000
    /\ g_touch.col = 100
    /\ sampler_prev.X = 2000
    /\ samp_cnt = 0

\* C17: after samp_N = 2 consecutive cycles with the same input on X, Y and
\* force, the filtered outputs are that input.
C17_ConstantInputConverges ==
    [][(ret.op = "hndl" /\ ret'.op = "hndl" /\ sampler_prev' = sampler_prev)
         => /\ g_touch'.page = sampler_prev'.X
            /\ g_touch'.col = sampler_prev'.Y
            /\ g_touch'.force = sampler_prev'.force]_vars

\* C18: xpt2046_start_calibration called before xpt2046_init returns
\* eXPT2046_ERROR and changes nothing: start is not set, done is not cleared,
\* the calibration data and the state machine are as they were, so no later
\* cycle can start a calibration because of that call
C18_StartBeforeInitRejected ==
    [][(ret'.op = "start_calibration" /\ ~gb_is_init)
         => /\ ret'.status = "ERROR"
            /\ g_cal_data' = g_cal_data
            /\ g_cal_fsm' = g_cal_fsm
            /\ point_touched' = point_touched
            /\ g_touch' = g_touch
            /\ ~gb_is_init']_vars

\* the call was rejected before initialisation while factors set beforehand
\* had marked the calibration done
C18_Witness ==
    /\ ret.op = "start_calibration"
    /\ ret.status = "ERROR"
    /\ ~gb_is_init
    /\ g_cal_data.done
    /\ ~g_cal_data.start

\* C19: for every address, power-down mode, reference mode, resolution and
\* start bit, the control byte sent is start * 128 + address * 16 +
\* resolution * 8 + reference * 4 + power-down mode, and the control byte of
\* each of the sampler's four conversions (X, Y, Z1, Z2) has bit 7 set
C19_ControlByteLayout ==
    pure.stage = "exchanged"
      => /\ pure.tx = pure.start * 128 + pure.addr * 16 + pure.mode * 8
                         + pure.ser_dfr * 4 + pure.pd_mode
         /\ [addr |-> pure.addr, pd_mode |-> pure.pd_mode, start |-> pure.start]
               \in SamplerRequests
              => pure.tx \div 128 = 1

\* the sampler's Z2 conversion was sent in an 8-bit, single-ended build: all
\* five fields of the control byte are non-zero
C19_Witness ==
    /\ pure.stage = "exchanged"
    /\ [addr |-> pure.addr, pd_mode |-> pure.pd_mode, start |-> pure.start]
          \in SamplerRequests
    /\ pure.addr = eXPT2046_ADDR_YN
    /\ pure.mode = 1
    /\ pure.ser_dfr = 1
    /\ pure.tx \div 128 = 1
    /\ pure.tx % 16 = 8 + 4 + eXPT2046_PD_VREF_ON

\* C20: a value placed in the result field of reply bytes 1 and 2 (12 bits,
\* or 8 bits in 8-bit mode) is returned exactly, never exceeds 4095 (255),
\* whatever reply byte 0 and the payload bits outside the field hold
C20_DecodeRoundTrip ==
    pure.stage = "exchanged"
      => /\ pure.adc = pure.v
         /\ pure.adc <= ResultRange(pure.mode) - 1

\* the largest 12-bit value was decoded from a reply whose byte 0 and bits
\* outside the result field are all set
C20_Witness ==
    /\ pure.stage = "exchanged"
    /\ pure.mode = 0
    /\ pure.v = 4095
    /\ pure.rx_data = Reply(255, 255, 255)
    /\ pure.adc = 4095

\* the acquisition states
AcqStates == {"P1_ACQ", "P2_ACQ", "P3_ACQ"}

\* the cycle just run was the one that entered the acquisition state s
JustEntered(s) == g_cal_fsm.state.cur = s /\ g_cal_fsm.time.first_entry

\* C21: in every visit of an acquisition state, in every run, the point
\* touched flag is false after the first cycle of the visit; it is set only
\* when the handler has seen pressed go from false to true in that visit (in
\* the cycle that sets it, or in the entry cycle just before); and the state
\* is left only in a later cycle that sees pressed go from true to false
C21_PressThenRelease ==
    [][\A s \in AcqStates :
         (ret'.op = "hndl" /\ ret'.ran = s)
           => /\ g_cal_fsm'.time.first_entry => ~point_touched'[AcqPoint[s]]
              /\ (~g_cal_fsm'.time.first_entry /\ ~point_touched[AcqPoint[s]]
                    /\ point_touched'[AcqPoint[s]])
                   => \/ ~g_touch.pressed /\ g_touch'.pressed
                      \/ JustEntered(s) /\ ~pressed_before /\ g_touch.pressed
              /\ g_cal_fsm'.state.next # s
                   => /\ ~g_cal_fsm'.time.first_entry
                      /\ point_touched[AcqPoint[s]]
                      /\ g_touch.pressed
                      /\ ~g_touch'.pressed]_vars

\* C22: the cycle in which an acquisition state hands over leaves in its
\* captured point the position that cycle published; a captured point
\* changes only in a cycle of its own acquisition state, after the entry
\* cycle and with the point already touched, so the other two points are
\* unchanged during that state
C22_CapturedAtRelease ==
    [][/\ \A s \in AcqStates :
            (ret'.op = "hndl" /\ ret'.ran = s /\ g_cal_fsm'.state.next # s)
              => g_cal_data'.Tp[AcqPoint[s]] = Point(g_touch'.page, g_touch'.col)
       /\ \A s \in AcqStates :
            g_cal_data'.Tp[AcqPoint[s]] # g_cal_data.Tp[AcqPoint[s]]
              => /\ ret'.op = "hndl"
                 /\ ret'.ran = s
                 /\ ~g_cal_fsm'.time.first_entry
                 /\ point_touched[AcqPoint[s]]]_vars

\* P2_ACQ has just handed over to P3_ACQ on a release: the second point holds
\* the position published by that cycle, the third is still unwritten
C22_Witness ==
    /\ ret.op = "hndl"
    /\ ret.ran = "P2_ACQ"
    /\ g_cal_fsm.state.next = "P3_ACQ"
    /\ ~g_touch.pressed
    /\ pressed_before
    /\ g_cal_data.Tp[1] = Point(g_touch.page, g_touch.col)
    /\ g_cal_data.Tp[1] # Point(0, 0)
    /\ g_cal_data.Tp[2] = Point(0, 0)

\* C23: the cycle that runs CALC_FACTORS stores the seven coefficients the
\* solver gives for the captured points and the anchors, sets done and
\* clears busy; the cycle that follows it finds the FSM in NORMAL
C23_CalcFactorsOneCycle ==
    [][/\ (ret'.op = "hndl" /\ ret'.ran = "CALC_FACTORS")
            => /\ g_cal_data'.factors = xpt2046_calculate_factors(Dp, g_cal_data'.Tp)
               /\ g_cal_data'.done
               /\ ~g_cal_data'.busy
       /\ (g_cal_fsm.state.cur = "CALC_FACTORS" /\ ret'.op = "hndl")
            => g_cal_fsm'.state.cur = "NORMAL"]_vars

\* the input that precedes the one of the cycle just run, for a window of two
\* samples: the sampler's previous output, or the new sample itself when the
\* cycle saw a touch-down edge
InputBefore(cur, prev) == IF touch_prev' /\ ~touch_prev THEN cur ELSE prev

\* C24: in every cycle each filter output is the floor of the mean of the
\* samp_N = 2 most recent inputs of its channel, inputs older than the latest
\* touch-down edge counting as the touch-down sample
C24_MovingAverage ==
    [][ret'.op = "hndl"
         => /\ g_touch'.page
                 = (sampler_prev'.X + InputBefore(sampler_prev'.X, sampler_prev.X)) \div 2
            /\ g_touch'.col
                 = (sampler_prev'.Y + InputBefore(sampler_prev'.Y, sampler_prev.Y)) \div 2
            /\ g_touch'.force
                 = (sampler_prev'.force
                      + InputBefore(sampler_prev'.force, sampler_prev.force)) \div 2]_vars

\* C25: in every cycle that runs the calibration handler the bookkeeping
\* comes first: the state function that runs is the one of the state
\* requested before the cycle; first_entry is true after the cycle exactly
\* when the current state changed in it, and then duration is 0; an
\* acquisition state sees first_entry true in the cycle that enters it (it
\* clears its flag and draws its marker) and false in every later cycle of
\* the visit
C25_TimerBookkeeping ==
    [][(ret'.op = "hndl" /\ ret'.ran # "none")
         => /\ g_cal_fsm'.state.cur = g_cal_fsm.state.next
            /\ ret'.ran = g_cal_fsm'.state.cur
            /\ g_cal_fsm'.time.first_entry <=> g_cal_fsm'.state.cur # g_cal_fsm.state.cur
            /\ g_cal_fsm'.time.first_entry => g_cal_fsm'.time.duration = 0
            /\ \A s \in AcqStates :
                 g_cal_fsm'.state.cur = s
                   => IF g_cal_fsm.state.cur # s
                      THEN /\ g_cal_fsm'.time.first_entry
                           /\ ~point_touched'[AcqPoint[s]]
                           /\ lcd'.cmds # <<>>
                           /\ lcd'.cmds[Len(lcd'.cmds)] = xpt2046_set_cal_point(AcqPoint[s])
                      ELSE /\ ~g_cal_fsm'.time.first_entry
                           /\ \A k \in 1..Len(lcd'.cmds) :
                                lcd'.cmds[k] # xpt2046_set_cal_point(AcqPoint[s])]_vars

\* the cycle that entered P2_ACQ in the second calibration run: first_entry
\* set, duration 0, the flag left by the first run cleared, the marker drawn
C25_Witness ==
    /\ ret.op = "hndl"
    /\ ret.ran = "P2_ACQ"
    /\ runs = 2
    /\ g_cal_fsm.time.first_entry
    /\ g_cal_fsm.time.duration = 0
    /\ ~point_touched[1]
    /\ point_touched[2]
    /\ lcd.cmds = <<xpt2046_set_cal_point(1)>>

\* the display requests of the cycle that enters the acquisition state s
EntryRequests(s) ==
    IF s = "P1_ACQ"
    THEN <<<<"background", "BLACK">>, xpt2046_set_cal_point(AcqPoint[s])>>
    ELSE <<xpt2046_set_cal_point(AcqPoint[s])>>

\* C26: a cycle issues display requests only as follows: the cycle that
\* enters an acquisition state draws the marker of its anchor (P1_ACQ clears
\* the screen first, and nothing else ever clears it); the cycle in which the
\* state sees the release erases that marker; every other cycle issues none.
\* At most one marker is displayed at any time, and none while the FSM is in
\* NORMAL or CALC_FACTORS
C26_DisplayProtocol ==
    [][/\ (ret'.op = "hndl" /\ ret'.ran # "none")
            => lcd'.cmds =
                 IF ret'.ran \in AcqStates /\ g_cal_fsm'.time.first_entry
                 THEN EntryRequests(ret'.ran)
                 ELSE IF ret'.ran \in AcqStates /\ g_cal_fsm'.state.next # ret'.ran
                 THEN <<xpt2046_clear_cal_point(AcqPoint[ret'.ran])>>
                 ELSE <<>>
       /\ lcd' # lcd => ret'.op = "hndl"
       /\ Cardinality(lcd'.shown) <= 1
       /\ \A s \in AcqStates :
            (g_cal_fsm'.state.cur = s /\ g_cal_fsm'.state.next = s)
              => lcd'.shown = {<<Dp[AcqPoint[s]].x, Dp[AcqPoint[s]].y>>}
       /\ g_cal_fsm'.state.cur \in {"NORMAL", "CALC_FACTORS"} => lcd'.shown = {}]_vars

\* the release cycle of P3_ACQ in the second run: its marker erased, the
\* display empty
C26_Witness ==
    /\ ret.op = "hndl"
    /\ ret.ran = "P3_ACQ"
    /\ runs = 2
    /\ g_cal_fsm.state.next = "CALC_FACTORS"
    /\ lcd.cmds = <<xpt2046_clear_cal_point(2)>>
    /\ lcd.shown = {}

\* C27: the seven stored coefficients change only in the cycle that runs
\* CALC_FACTORS or in xpt2046_set_cal_factors; every other cycle and every
\* call of xpt2046_start_calibration, xpt2046_get_touch,
\* xpt2046_is_calibrated, xpt2046_get_cal_factors and xpt2046_init leaves
\* them as they were
C27_FactorsFrame ==
    [][/\ g_cal_data'.factors # g_cal_data.factors
            => \/ ret'.op = "hndl" /\ ret'.ran = "CALC_FACTORS"
               \/ ret'.op = "set_cal_factors"
       /\ ret'.op \in {"start_calibration", "get_touch", "is_calibrated",
                       "get_cal_factors", "init"}
            => g_cal_data'.factors = g_cal_data.factors
       /\ (ret'.op = "hndl" /\ ret'.ran # "CALC_FACTORS")
            => g_cal_data'.factors = g_cal_data.factors]_vars

\* a calibration request accepted with injected coefficients in place: they
\* are still stored
C27_Witness ==
    /\ ret.op = "start_calibration"
    /\ ret.status = "OK"
    /\ g_cal_data.start
    /\ g_cal_data.factors = ScenarioFactors

\* a calibration request has been accepted and CALC_FACTORS has not yet run
CalibrationPending == g_cal_data.start \/ g_cal_data.busy

\* C28: while a calibration is pending, xpt2046_is_calibrated returns false
\* and every position a cycle publishes is the output of the filter, not
\* mapped, whatever calls were made in between
C28_UnmappedWhileCalibrating ==
    [][CalibrationPending
         => /\ ret'.op = "is_calibrated" => ret'.status = "FALSE"
            /\ (ret'.op = "hndl" /\ ret'.ran # "none")
                 => /\ g_touch'.page = U16(filter'.x.sum \div samp_N)
                    /\ g_touch'.col = U16(filter'.y.sum \div samp_N)]_vars

\* C29: with the filter enabled and no calibration, every cycle that finds
\* the panel released publishes the x, y and force published by the cycle
\* before it, hence those of the last pressed cycle
C29_HoldEndToEnd ==
    [][(ret'.op = "hndl" /\ ~g_touch'.pressed)
         => /\ g_touch'.page = g_touch.page
            /\ g_touch'.col = g_touch.col
            /\ g_touch'.force = g_touch.force]_vars

\* C30: with the handler free to run between the stores of
\* xpt2046_set_cal_factors, a cycle that maps its sample (done is true when
\* it starts) finds no call in progress and the seven stored coefficients
\* are one injected set in full
C30_NoTornCoefficients ==
    [][(ret'.op = "hndl" /\ g_cal_data.done)
         => /\ set_cal.pc = "idle"
            /\ g_cal_data.factors \in RaceFactors]_vars

=============================================================================
